---------------------------- MODULE Spec2Model ----------------------------
(***************************************************************************)
(* A model of the retrieval core of Teacher-s-Pet-Q-A:                     *)
(*   - chunk_text                (src/db_setup.py)                         *)
(*   - rank_chunks_by_similarity (src/main_call.py)                        *)
(*   - handle_prompt             (src/main_call.py) and its HTTP caller    *)
(*   - process_and_ask           (src/server.py) over the sqlite store     *)
(*                                                                         *)
(* A Python str is a sequence of one-character strings.  A Python list is  *)
(* a sequence.  Python's 0-based indices are written 1-based.              *)
(***************************************************************************)
EXTENDS Integers, Sequences, FiniteSets, TLC

VARIABLES
    \* ---- chunk_text (src/db_setup.py:95-115) ----
    sentences,        \* nltk.tokenize.sent_tokenize(text)
    max_tokens,       \* parameter
    overlap,          \* parameter
    chunks,           \* list of chunk strings built so far
    current_chunk,    \* the sentence buffer
    current_length,   \* the running token count
    idx,              \* position of the for loop in sentences
    cpc,              \* position in chunk_text
    flushed,          \* history: the buffer each emitted chunk was joined from
    \* ---- rank_chunks_by_similarity (src/main_call.py:72-90) ----
    rk_chunks,            \* parameter chunks
    top_k,                \* parameter
    cosine_similarities,  \* score of each candidate
    argsorted,            \* cosine_similarities.argsort()
    ranked_indices,
    ranked_chunks,        \* the returned list
    rpc,
    \* ---- handle_prompt (src/main_call.py:94-116), server.py:82-86 ----
    fragments,        \* what model.stream(...) yields
    gen_pos,          \* number of fragments pulled from the generator
    sink,             \* the writes made to sys.stdout, in order
    response,         \* value returned by handle_prompt (<<>> is None)
    json_response,    \* value of "response" in the JSON body
    spc,
    \* ---- process_and_ask (src/server.py:29-86) and the store ----
    uploads,          \* the files under uploads/, by file name
    documents,        \* committed rows of table documents
    chunk_rows,       \* committed rows of table chunks
    write_lock,       \* connection holding sqlite's write lock (0: none)
    req,              \* per worker: the handler's locals and position
    log,              \* history: one record per finished request
    started           \* number of requests started so far

chunkVars  == <<sentences, max_tokens, overlap, chunks, current_chunk,
                current_length, idx, cpc, flushed>>
rankVars   == <<rk_chunks, top_k, cosine_similarities, argsorted,
                ranked_indices, ranked_chunks, rpc>>
streamVars == <<fragments, gen_pos, sink, response, json_response, spc>>
storeVars  == <<uploads, documents, chunk_rows, write_lock, req, log, started>>
vars       == <<chunkVars, rankVars, streamVars, storeVars>>

(***************************************************************************)
(* Bounds of the model.                                                    *)
(***************************************************************************)
MaxSents == 4
MaxWords == 2
MaxTokens == 3
MaxOverlap == 2
MaxCands == 3
MaxScore == 2
MaxTopK == 4
MaxFrags == 3
MaxFragLen == 2
NumWorkers == 2
MaxRequests == 3

(***************************************************************************)
(* Python helpers.                                                         *)
(***************************************************************************)
Min(a, b) == IF a <= b THEN a ELSE b

Letters == <<"a", "b", "c", "d", "e", "f", "g", "h">>

\* str.split(): the maximal runs of non-whitespace characters.
RECURSIVE SplitAcc(_, _, _)
SplitAcc(s, cur, acc) ==
    IF s = <<>>
    THEN (IF cur = <<>> THEN acc ELSE Append(acc, cur))
    ELSE IF Head(s) = " "
         THEN SplitAcc(Tail(s), <<>>, IF cur = <<>> THEN acc ELSE Append(acc, cur))
         ELSE SplitAcc(Tail(s), Append(cur, Head(s)), acc)

Split(s) == SplitAcc(s, <<>>, <<>>)

\* " ".join(list)
RECURSIVE Join(_)
Join(l) ==
    IF l = <<>> THEN <<>>
    ELSE IF Len(l) = 1 THEN l[1]
    ELSE l[1] \o <<" ">> \o Join(Tail(l))

\* "".join(list)
RECURSIVE Concat(_)
Concat(l) == IF l = <<>> THEN <<>> ELSE l[1] \o Concat(Tail(l))

\* s[:k] for k >= 0
FirstN(s, k) == SubSeq(s, 1, Min(k, Len(s)))

\* s[-k:] for k >= 0.  Python reads -0 as 0, so s[-0:] is s[0:], all of s.
LastN(s, k) ==
    IF k = 0 THEN s
    ELSE IF k >= Len(s) THEN s
    ELSE SubSeq(s, Len(s) - k + 1, Len(s))

\* s[::-1]
Reverse(s) == [i \in 1..Len(s) |-> s[Len(s) + 1 - i]]

\* whether string a occurs in string b
Occurs(a, b) ==
    \E i \in 0..(Len(b) - Len(a)) : SubSeq(b, i + 1, i + Len(a)) = a

(***************************************************************************)
(* chunk_text                                                              *)
(***************************************************************************)
\* len(sentence.split())
TokenCount(sentence) == Len(Split(sentence))

\* sum(len(chunk.split()) for chunk in current_chunk)
RECURSIVE SumTokens(_)
SumTokens(l) == IF l = <<>> THEN 0 ELSE TokenCount(l[1]) + SumTokens(Tail(l))

\* the test of line 104
OverBudget(len, sentence, maxtok) == len + TokenCount(sentence) > maxtok

\* A faulty variant of RetainTail: the head of the buffer is kept,
\* current_chunk[:overlap].
RetainHead(buf, k) == FirstN(buf, k)

\* current_chunk[-overlap:] of line 106
RetainTail(buf, k) == LastN(buf, k)

\* A faulty variant of FinalFlush: the trailing buffer is dropped.
FinalFlushDropped(chs, buf) == chs

\* lines 112-113
FinalFlush(chs, buf) == IF buf # <<>> THEN Append(chs, Join(buf)) ELSE chs

\* A sentence of n words, written with the letter of its position.
RECURSIVE Words(_, _)
Words(c, n) == IF n = 1 THEN <<c>> ELSE <<c, " ">> \o Words(c, n - 1)

InputSentences ==
    UNION { { [i \in 1..n |-> Words(Letters[i], lens[i])] :
                lens \in [1..n -> 1..MaxWords] } : n \in 0..MaxSents }

ChunkIdle ==
    /\ sentences = <<>> /\ max_tokens = 1 /\ overlap = 0
    /\ chunks = <<>> /\ current_chunk = <<>> /\ current_length = 0
    /\ idx = 1 /\ cpc = "idle" /\ flushed = <<>>

ChunkInit ==
    /\ sentences \in InputSentences
    /\ max_tokens \in 1..MaxTokens
    /\ overlap \in 0..MaxOverlap
    /\ chunks = <<>> /\ current_chunk = <<>> /\ current_length = 0
    /\ idx = 1 /\ cpc = "loop" /\ flushed = <<>>

\* lines 102-107, the test true: emit the buffer, keep its tail
ChunkFlush ==
    /\ cpc = "loop" /\ idx <= Len(sentences)
    /\ OverBudget(current_length, sentences[idx], max_tokens)
    /\ chunks' = Append(chunks, Join(current_chunk))
    /\ flushed' = Append(flushed, current_chunk)
    /\ current_chunk' = RetainTail(current_chunk, overlap)
    /\ current_length' = SumTokens(RetainTail(current_chunk, overlap))
    /\ cpc' = "flushed"
    /\ UNCHANGED <<sentences, max_tokens, overlap, idx>>
    /\ UNCHANGED <<rankVars, streamVars, storeVars>>

\* lines 102-104, the test false
ChunkNoFlush ==
    /\ cpc = "loop" /\ idx <= Len(sentences)
    /\ ~OverBudget(current_length, sentences[idx], max_tokens)
    /\ cpc' = "append"
    /\ UNCHANGED <<sentences, max_tokens, overlap, chunks, current_chunk,
                   current_length, idx, flushed>>
    /\ UNCHANGED <<rankVars, streamVars, storeVars>>

\* lines 109-110
ChunkAppend ==
    /\ cpc \in {"flushed", "append"}
    /\ current_chunk' = Append(current_chunk, sentences[idx])
    /\ current_length' = current_length + TokenCount(sentences[idx])
    /\ idx' = idx + 1
    /\ cpc' = "loop"
    /\ UNCHANGED <<sentences, max_tokens, overlap, chunks, flushed>>
    /\ UNCHANGED <<rankVars, streamVars, storeVars>>

\* lines 112-115
ChunkReturn ==
    /\ cpc = "loop" /\ idx > Len(sentences)
    /\ chunks' = FinalFlush(chunks, current_chunk)
    /\ flushed' = IF current_chunk # <<>> THEN Append(flushed, current_chunk)
                  ELSE flushed
    /\ cpc' = "done"
    /\ UNCHANGED <<sentences, max_tokens, overlap, current_chunk,
                   current_length, idx>>
    /\ UNCHANGED <<rankVars, streamVars, storeVars>>

ChunkNext == ChunkFlush \/ ChunkNoFlush \/ ChunkAppend \/ ChunkReturn


(***************************************************************************)
(* chunk_text as a function, for its callers.                              *)
(***************************************************************************)
\* one iteration of the loop, lines 103-110
StepSentence(st, s, maxtok, k) ==
    LET f == IF OverBudget(st.len, s, maxtok)
             THEN [chunks |-> Append(st.chunks, Join(st.cur)),
                   cur    |-> RetainTail(st.cur, k),
                   len    |-> SumTokens(RetainTail(st.cur, k))]
             ELSE st
    IN  [chunks |-> f.chunks,
         cur    |-> Append(f.cur, s),
         len    |-> f.len + TokenCount(s)]

RECURSIVE ChunkFold(_, _, _, _)
ChunkFold(st, sents, maxtok, k) ==
    IF sents = <<>> THEN st
    ELSE ChunkFold(StepSentence(st, Head(sents), maxtok, k), Tail(sents), maxtok, k)

ChunkText(sents, maxtok, k) ==
    LET st == ChunkFold([chunks |-> <<>>, cur |-> <<>>, len |-> 0], sents, maxtok, k)
    IN  FinalFlush(st.chunks, st.cur)

(***************************************************************************)
(* rank_chunks_by_similarity                                               *)
(*                                                                         *)
(* The TF-IDF vectors and their cosine with the query are computed by      *)
(* scikit-learn; the model takes the resulting score of each candidate as  *)
(* an input, one of the levels 0..MaxScore.                                *)
(***************************************************************************)
\* numpy's argsort (default kind, not stable): any permutation of the
\* indices that puts the scores in ascending order.
Argsort(scores) ==
    LET n == Len(scores)
    IN  { p \in [1..n -> 1..n] :
            /\ \A i, j \in 1..n : i # j => p[i] # p[j]
            /\ \A i, j \in 1..n : i < j => scores[p[i]] <= scores[p[j]] }

\* A faulty variant of SelectTop: the [::-1] is missing.
SelectTopAscending(sorted, k) == LastN(sorted, k)

\* [-top_k:][::-1] of line 87
SelectTop(sorted, k) == Reverse(LastN(sorted, k))

RankIdle ==
    /\ rk_chunks = <<>> /\ top_k = 0 /\ cosine_similarities = <<>>
    /\ argsorted = <<>> /\ ranked_indices = <<>> /\ ranked_chunks = <<>>
    /\ rpc = "idle"

RankInit ==
    /\ \E n \in 0..MaxCands :
          /\ rk_chunks = [i \in 1..n |-> <<Letters[i]>>]
          /\ cosine_similarities \in [1..n -> 0..MaxScore]
    /\ top_k \in 0..MaxTopK
    /\ argsorted = <<>> /\ ranked_indices = <<>> /\ ranked_chunks = <<>>
    /\ rpc = "start"

\* lines 74-75
RankEmpty ==
    /\ rpc = "start" /\ rk_chunks = <<>>
    /\ ranked_chunks' = <<>>
    /\ rpc' = "done"
    /\ UNCHANGED <<rk_chunks, top_k, cosine_similarities, argsorted, ranked_indices>>
    /\ UNCHANGED <<chunkVars, streamVars, storeVars>>

\* lines 77-87, up to .argsort()
RankArgsort ==
    /\ rpc = "start" /\ rk_chunks # <<>>
    /\ argsorted' \in Argsort(cosine_similarities)
    /\ rpc' = "sorted"
    /\ UNCHANGED <<rk_chunks, top_k, cosine_similarities, ranked_indices, ranked_chunks>>
    /\ UNCHANGED <<chunkVars, streamVars, storeVars>>

\* lines 87-90
RankSelect ==
    /\ rpc = "sorted"
    /\ ranked_indices' = SelectTop(argsorted, top_k)
    /\ ranked_chunks' = [i \in 1..Len(SelectTop(argsorted, top_k)) |->
                            rk_chunks[SelectTop(argsorted, top_k)[i]]]
    /\ rpc' = "done"
    /\ UNCHANGED <<rk_chunks, top_k, cosine_similarities, argsorted>>
    /\ UNCHANGED <<chunkVars, streamVars, storeVars>>

RankNext == RankEmpty \/ RankArgsort \/ RankSelect

(***************************************************************************)
(* handle_prompt and the JSON response of process_and_ask                  *)
(***************************************************************************)
\* An optional value: None, or a one-element sequence holding the value.
None == <<>>
Some(x) == <<x>>

FragmentStrings ==
    UNION { [1..n -> {"x", "y"}] : n \in 0..MaxFragLen }

InputFragments ==
    UNION { [1..n -> FragmentStrings] : n \in 0..MaxFrags }

\* handle_prompt has no return statement: the call evaluates to None.
HandlePromptReturn(parts) == None

StreamIdle ==
    /\ fragments = <<>> /\ gen_pos = 0 /\ sink = <<>>
    /\ response = None /\ json_response = None /\ spc = "idle"

StreamInit ==
    /\ fragments \in InputFragments
    /\ gen_pos = 0 /\ sink = <<>>
    /\ response = None /\ json_response = None /\ spc = "stream"

\* main_call.py lines 110-114: one pass of the for loop
StreamPart ==
    /\ spc = "stream" /\ gen_pos < Len(fragments)
    /\ sink' = Append(sink, fragments[gen_pos + 1])
    /\ gen_pos' = gen_pos + 1
    /\ UNCHANGED <<fragments, response, json_response, spc>>
    /\ UNCHANGED <<chunkVars, rankVars, storeVars>>

\* main_call.py line 116, and server.py line 83 taking the value
StreamReturn ==
    /\ spc = "stream" /\ gen_pos = Len(fragments)
    /\ response' = HandlePromptReturn(sink)
    /\ spc' = "returned"
    /\ UNCHANGED <<fragments, gen_pos, sink, json_response>>
    /\ UNCHANGED <<chunkVars, rankVars, storeVars>>

\* server.py line 86
JsonRespond ==
    /\ spc = "returned"
    /\ json_response' = response
    /\ spc' = "responded"
    /\ UNCHANGED <<fragments, gen_pos, sink, response>>
    /\ UNCHANGED <<chunkVars, rankVars, storeVars>>

StreamNext == StreamPart \/ StreamReturn \/ JsonRespond

(***************************************************************************)
(* process_and_ask over the sqlite store                                   *)
(*                                                                         *)
(* Every request opens its own connection.  A SELECT reads the committed   *)
(* rows.  The first INSERT of a connection opens a transaction and takes   *)
(* the database's write lock, which it holds until it commits; the rows it *)
(* inserts are its own until then.  A second writer waits for the lock     *)
(* and, when its busy timeout passes first, gets "database is locked".     *)
(***************************************************************************)
Workers == 1..NumWorkers

\* process_pdf calls chunk_text(extracted_text, max_tokens=500, overlap=50)
IngestMaxTokens == 500
IngestOverlap == 50

\* The uploaded files' names and their extracted texts.
Names == { <<"a">>, <<"a", "b">> }
Texts == { <<>>, <<".">>, <<"b", ".">>, <<"b", ".", "b", ".">> }

\* sha256 over name.encode() followed by content.encode(): the digest of the
\* concatenated bytes, written as those bytes (sha256 taken as injective).
generate_document_hash(document_name, content) == document_name \o content

\* nltk's sent_tokenize, on texts without whitespace: a sentence ends at
\* each full stop.
RECURSIVE SentAcc(_, _, _)
SentAcc(s, cur, acc) ==
    IF s = <<>>
    THEN (IF cur = <<>> THEN acc ELSE Append(acc, cur))
    ELSE IF Head(s) = "."
         THEN SentAcc(Tail(s), <<>>, Append(acc, Append(cur, ".")))
         ELSE SentAcc(Tail(s), Append(cur, Head(s)), acc)

sent_tokenize(text) == SentAcc(text, <<>>, <<>>)

MaxId(rows) == IF rows = {} THEN 0
               ELSE CHOOSE m \in { r.id : r \in rows } : \A r \in rows : r.id <= m

\* the UNIQUE constraints of table documents (db_setup.py lines 19-20)
ViolatesUnique(rows, name, hash) ==
    \E d \in rows : d.name = name \/ d.document_hash = hash

\* the rows process_pdf inserts into table chunks, ids from AUTOINCREMENT
NewChunkRows(text, document_id, rows) ==
    LET cs == ChunkText(sent_tokenize(text), IngestMaxTokens, IngestOverlap)
    IN  { [id |-> MaxId(rows) + i, document_id |-> document_id, chunk |-> cs[i]] :
            i \in 1..Len(cs) }

IdleReq == [pc |-> "idle", name |-> <<>>, text |-> <<>>, document_hash |-> <<>>,
            document_id |-> 0, pend_doc |-> {}, created |-> FALSE, wrote |-> {}]

LogEntry(r, w, status) ==
    [worker |-> w, name |-> r.name, text |-> r.text,
     document_hash |-> r.document_hash, status |-> status,
     document_id |-> r.document_id, created |-> r.created, wrote |-> r.wrote]

StoreIdle ==
    /\ uploads = [n \in Names |-> <<>>]
    /\ documents = {} /\ chunk_rows = {} /\ write_lock = 0
    /\ req = [w \in Workers |-> IdleReq]
    /\ log = <<>> /\ started = 0

StoreInit == StoreIdle

\* server.py lines 29-43: the upload is saved as uploads/<name>, its text
\* extracted and hashed
Receive(w) ==
    /\ req[w].pc = "idle"
    /\ started < MaxRequests
    /\ \E name \in Names, text \in Texts :
          /\ uploads' = [uploads EXCEPT ![name] = text]
          /\ req' = [req EXCEPT ![w] =
                    [IdleReq EXCEPT !.pc = "lookup", !.name = name, !.text = text,
                         !.document_hash = generate_document_hash(name, text)]]
    /\ started' = started + 1
    /\ UNCHANGED <<documents, chunk_rows, write_lock, log>>
    /\ UNCHANGED <<chunkVars, rankVars, streamVars>>

\* server.py lines 50-55: SELECT id FROM documents WHERE document_hash = ?
Lookup(w) ==
    /\ req[w].pc = "lookup"
    /\ LET existing == { d \in documents : d.document_hash = req[w].document_hash }
       IN  IF existing # {}
           THEN req' = [req EXCEPT ![w].document_id = (CHOOSE d \in existing : TRUE).id,
                                   ![w].pc = "fetch"]
           ELSE req' = [req EXCEPT ![w].pc = "insert"]
    /\ UNCHANGED <<uploads, documents, chunk_rows, write_lock, log, started>>
    /\ UNCHANGED <<chunkVars, rankVars, streamVars>>

\* server.py lines 60-64: INSERT INTO documents, the write lock free.  A row
\* with the same name or the same hash raises sqlite3.IntegrityError, which
\* nothing catches: the request ends with it.
InsertDocument(w) ==
    /\ req[w].pc = "insert"
    /\ write_lock = 0
    /\ IF ViolatesUnique(documents, req[w].name, req[w].document_hash)
       THEN /\ log' = Append(log, LogEntry(req[w], w, "IntegrityError"))
            /\ req' = [req EXCEPT ![w] = IdleReq]
            /\ UNCHANGED write_lock
       ELSE /\ req' = [req EXCEPT
                  ![w].pend_doc = { [id |-> MaxId(documents) + 1,
                                     name |-> req[w].name,
                                     document_hash |-> req[w].document_hash] },
                  ![w].document_id = MaxId(documents) + 1,
                  ![w].created = TRUE,
                  ![w].pc = "process"]
            /\ write_lock' = w
            /\ UNCHANGED log
    /\ UNCHANGED <<uploads, documents, chunk_rows, started>>
    /\ UNCHANGED <<chunkVars, rankVars, streamVars>>

\* server.py lines 60-63 while another connection holds the write lock and
\* the busy timeout passes: sqlite3.OperationalError, which nothing catches.
InsertLocked(w) ==
    /\ req[w].pc = "insert"
    /\ write_lock \notin {0, w}
    /\ log' = Append(log, LogEntry(req[w], w, "OperationalError"))
    /\ req' = [req EXCEPT ![w] = IdleReq]
    /\ UNCHANGED <<uploads, documents, chunk_rows, write_lock, started>>
    /\ UNCHANGED <<chunkVars, rankVars, streamVars>>

\* server.py line 67, main_call.py lines 30-49: the text is extracted again
\* from the saved file, its chunks are inserted and db_conn.commit() commits
\* them together with the document row.
ProcessPdf(w) ==
    /\ req[w].pc = "process"
    /\ LET new == NewChunkRows(uploads[req[w].name], req[w].document_id, chunk_rows)
       IN  /\ chunk_rows' = chunk_rows \cup new
           /\ req' = [req EXCEPT ![w].wrote = { c.id : c \in new },
                                 ![w].pend_doc = {},
                                 ![w].pc = "commit"]
    /\ documents' = documents \cup req[w].pend_doc
    /\ write_lock' = 0
    /\ UNCHANGED <<uploads, log, started>>
    /\ UNCHANGED <<chunkVars, rankVars, streamVars>>

\* server.py line 68: conn.commit(), nothing left to commit
Commit(w) ==
    /\ req[w].pc = "commit"
    /\ req' = [req EXCEPT ![w].pc = "fetch"]
    /\ UNCHANGED <<uploads, documents, chunk_rows, write_lock, log, started>>
    /\ UNCHANGED <<chunkVars, rankVars, streamVars>>

\* server.py lines 71-86: the document's chunks are read; none is a 404,
\* otherwise they are ranked and the answer is returned
Respond(w) ==
    /\ req[w].pc = "fetch"
    /\ LET rows == { c \in chunk_rows : c.document_id = req[w].document_id }
       IN  log' = Append(log, LogEntry(req[w], w, IF rows = {} THEN "404" ELSE "200"))
    /\ req' = [req EXCEPT ![w] = IdleReq]
    /\ UNCHANGED <<uploads, documents, chunk_rows, write_lock, started>>
    /\ UNCHANGED <<chunkVars, rankVars, streamVars>>

AllIdle == \A w \in Workers : req[w].pc = "idle"

\* Requests one after the other: a request is received when none is running.
SeqReceive(w) == AllIdle /\ Receive(w)

SeqNext ==
    \E w \in Workers :
        \/ SeqReceive(w) \/ Lookup(w) \/ InsertDocument(w)
        \/ ProcessPdf(w) \/ Commit(w) \/ Respond(w)

\* Requests handled concurrently (Flask's threaded development server).
ConcNext ==
    \E w \in Workers :
        \/ Receive(w) \/ Lookup(w) \/ InsertDocument(w) \/ InsertLocked(w)
        \/ ProcessPdf(w) \/ Commit(w) \/ Respond(w)

(***************************************************************************)
(* Specifications: one for each part of the program, the other parts at   *)
(* rest.  Each property below is checked under the specification of the    *)
(* part it is about.                                                       *)
(***************************************************************************)
InitChunk  == ChunkInit /\ RankIdle /\ StreamIdle /\ StoreIdle
InitRank   == ChunkIdle /\ RankInit /\ StreamIdle /\ StoreIdle
InitStream == ChunkIdle /\ RankIdle /\ StreamInit /\ StoreIdle
InitStore  == ChunkIdle /\ RankIdle /\ StreamIdle /\ StoreInit

SpecChunk  == InitChunk /\ [][ChunkNext]_vars
SpecRank   == InitRank /\ [][RankNext]_vars
SpecStream == InitStream /\ [][StreamNext]_vars
SpecSeq    == InitStore /\ [][SeqNext]_vars
SpecConc   == InitStore /\ [][ConcNext]_vars


(***************************************************************************)
(* Consistency of the model: the loop, run step by step, returns what the  *)
(* function ChunkText computes.                                            *)
(***************************************************************************)
ChunkStepsAgree ==
    cpc = "done" => chunks = ChunkText(sentences, max_tokens, overlap)

(***************************************************************************)
(* Properties of chunk_text (SpecChunk)                                    *)
(***************************************************************************)

\* C4: Chunking coverage.  When chunk_text returns, a non-empty sentence
\* sequence has given at least one chunk and every input sentence occurs in
\* at least one returned chunk; an empty input has given zero chunks.
C4_ChunkingCoverage ==
    cpc = "done" =>
        /\ sentences # <<>> =>
              /\ Len(chunks) >= 1
              /\ \A i \in 1..Len(sentences) :
                    \E c \in 1..Len(chunks) : Occurs(sentences[i], chunks[c])
        /\ sentences = <<>> => chunks = <<>>

\* Reached: a text of three or more sentences returned as several chunks.
C4_Witness ==
    /\ cpc = "done" /\ Len(sentences) >= 3 /\ Len(chunks) >= 2
    /\ \E i \in 1..Len(sentences) : TokenCount(sentences[i]) > max_tokens

\* C5: Chunking overlap bound.  Every chunk after the first is joined from a
\* buffer that begins with the last min(overlap, n) sentences of the buffer
\* the previous chunk was joined from, in the same order, n the number of
\* sentences of that previous buffer.
C5_OverlapBound ==
    /\ Len(flushed) = Len(chunks)
    /\ \A j \in 1..Len(chunks) : chunks[j] = Join(flushed[j])
    /\ \A j \in 2..Len(flushed) :
          LET prev == flushed[j - 1]
              m    == Min(overlap, Len(prev))
          IN  /\ Len(flushed[j]) >= m
              /\ SubSeq(flushed[j], 1, m) = SubSeq(prev, Len(prev) - m + 1, Len(prev))

\* Reached: overlap 2, a chunk of three sentences followed by another chunk.
C5_Witness ==
    /\ cpc = "done" /\ overlap = 2 /\ Len(chunks) >= 2
    /\ \E j \in 2..Len(flushed) : Len(flushed[j - 1]) >= 3

\* C9: The chunker flushes only a non-empty buffer: no chunk returned by
\* chunk_text is the empty string, also when the first sentence alone has
\* more than max_tokens tokens.
C9_NoEmptyChunk ==
    \A c \in 1..Len(chunks) : chunks[c] # <<>>

\* C10: After every flush the buffer holds only the last overlap sentences of
\* the flushed buffer, exactly min(overlap, flushed sentence count) of them;
\* with overlap 0 the buffer is empty after a flush.
C10_RetainedAfterFlush ==
    cpc = "flushed" =>
        LET prev == flushed[Len(flushed)]
            m    == Min(overlap, Len(prev))
        IN  /\ Len(current_chunk) = m
            /\ current_chunk = SubSeq(prev, Len(prev) - m + 1, Len(prev))
            /\ (overlap = 0 => current_chunk = <<>>)

(***************************************************************************)
(* Properties of rank_chunks_by_similarity (SpecRank)                      *)
(***************************************************************************)
Score(i) == cosine_similarities[i]

Returned == { ranked_indices[a] : a \in 1..Len(ranked_indices) }

Omitted == (1..Len(rk_chunks)) \ Returned

\* C6: Ranking boundary.  rank_chunks_by_similarity returns exactly
\* min(top_k, len(candidates)) entries for every top_k >= 0: none for no
\* candidates, none for top_k = 0.
C6_RankingBoundary ==
    rpc = "done" => Len(ranked_chunks) = Min(top_k, Len(rk_chunks))

C8_StreamingResult ==
    spc = "responded" =>
        /\ sink = fragments
        /\ json_response = Some(Concat(sink))

(***************************************************************************)
(* Properties of process_and_ask (SpecSeq, SpecConc)                       *)
(***************************************************************************)
SamePair(e, f) == e.name = f.name /\ e.text = f.text

RowsOf(e) ==
    { d \in documents : d.name = e.name /\ d.document_hash = e.document_hash }

ChunkIdsOf(document_id) ==
    { c.id : c \in { r \in chunk_rows : r.document_id = document_id } }

Failed(e) == e.status \in {"IntegrityError", "OperationalError"}

\* C1: Idempotent ingestion.  Of the requests, handled one after the other,
\* that ingest the same (name, content): the first creates the document,
\* every later one resolves to that document's id and writes nothing, and
\* the store holds exactly one document row for the pair and exactly the
\* chunk rows the first ingestion wrote.
C1_IdempotentIngestion ==
    \A i, j \in DOMAIN log :
        ( /\ i < j
          /\ SamePair(log[i], log[j])
          /\ \A h \in 1..(i - 1) : ~SamePair(log[h], log[i]) )
        => /\ log[i].created
           /\ log[j].document_id = log[i].document_id
           /\ ~log[j].created /\ log[j].wrote = {}
           /\ Cardinality(RowsOf(log[i])) = 1
           /\ ChunkIdsOf(log[i].document_id) = log[i].wrote

\* What remains of C1 when the first ingestion of the pair did create the
\* document: the later ones resolve to its id and write nothing.
IdempotentOnceCreated ==
    \A i, j \in DOMAIN log :
        (i < j /\ SamePair(log[i], log[j]) /\ log[i].created)
        => /\ log[j].document_id = log[i].document_id
           /\ ~log[j].created /\ log[j].wrote = {}
           /\ Cardinality(RowsOf(log[i])) = 1
           /\ ChunkIdsOf(log[i].document_id) = log[i].wrote

\* C2: Concurrent requests for the same new document.  A request for a
\* document whose row another request has created completes normally on that
\* row, and no two rows hold the same content hash.
C2_RaceFallsBack ==
    /\ \A i \in DOMAIN log :
          \A d \in RowsOf(log[i]) :
              ~Failed(log[i]) /\ log[i].document_id = d.id
    /\ \A d, e \in documents : d.document_hash = e.document_hash => d = e

\* C3: Distinct documents are each ingested.  Two requests, handled one after
\* the other, for (name, content) pairs that differ both end without an
\* error, and the store holds one document row for each pair.
C3_DistinctDocumentsIngested ==
    \A i, j \in DOMAIN log :
        (i < j /\ ~SamePair(log[i], log[j]))
        => \A e \in {log[i], log[j]} :
              ~Failed(e) /\ Cardinality(RowsOf(e)) = 1

=============================================================================
